---- MODULE Spec2Model ----
(***************************************************************************)
(* Model of glslang/MachineIndependent/iomapper.cpp: TIoMapper::addStage   *)
(* and the helpers it drives (TVarGatherTraverser, TOrderByPriority,       *)
(* TResolverAdaptor, TVarSetTraverser).                                    *)
(*                                                                         *)
(* The tree is a sequence of symbol occurrences in tree order, grouped by  *)
(* the function body that holds them.  The resolver is external: each of   *)
(* its calls returns a value chosen nondeterministically, and every call   *)
(* is appended to resolverLog.                                             *)
(***************************************************************************)
EXTENDS Integers, Sequences, FiniteSets, TLC

\* ---- bounds -------------------------------------------------------------
NumVars == 2
MaxOcc == 2
MaxEntryPoints == 2
MaxPasses == 2

\* ---- constants of the qualifier record (Include/Types.h) ----------------
layoutSetEnd == 63
layoutBindingEnd == 65535

Unset == -1

Ids == 1..NumVars
Names == <<"A", "B", "C", "D", "E", "F">>
getName(id) == Names[id]

\* function bodies in tree order; main is the entry point and calls helper
FnCount == 3
EntryPoint == 3
Callees(fn) == IF fn = EntryPoint THEN <<2>> ELSE <<>>

\* one call is for one stage; the mapper only hands the value on
Stages == {"EShLangVertex"}

hasBinding(q) == q.layoutBinding # layoutBindingEnd
hasSet(q) == q.layoutSet # layoutSetEnd

\* the values a resolver call may return: the mapper only copies them and
\* compares them with -1, so "no value" and one slot number stand for all
ResolverInts == {Unset, 5}

VARIABLES
    tree,            \* symbol occurrences: [id, fn, storage, layoutBinding, layoutSet]
    tree0,           \* the tree as it was when addStage was called
    stage,           \* EShLanguage stage
    resolver,        \* TRUE when resolver != NULL
    numEntryPoints,  \* intermediate.getNumEntryPoints()
    recursive,       \* intermediate.isRecursive()
    root,            \* TRUE when intermediate.getTreeRoot() != nullptr
    pc,              \* position inside addStage
    pos,             \* cursor of the running traversal / for_each
    cur,             \* function body the live traverser is in (0: none)
    functions,       \* iter_binding_live.functions (work list, back = end)
    liveFunctions,   \* functions already pushed by the live traverser
    varMap,          \* TVarLiveMap
    passes,          \* traverseAll of every TVarGatherTraverser pass begun, in order
    error,           \* doResolve.error
    result,          \* <<return value of addStage>> (<<>> while running)
    resolverLog,     \* calls made on the resolver, in order
    infoSink         \* messages given to infoSink.info.message

vars == <<tree, tree0, stage, resolver, numEntryPoints, recursive, root, pc, pos, cur,
          functions, liveFunctions, varMap, passes, error, result, resolverLog, infoSink>>

\* ---- the program representation -----------------------------------------
Qualifiers ==
    [storage : {"EvqUniform"}, layoutBinding : {layoutBindingEnd, 2}, layoutSet : {layoutSetEnd, 1}]
    \cup [storage : {"EvqTemporary"}, layoutBinding : {layoutBindingEnd}, layoutSet : {layoutSetEnd}]

DefaultQualifier ==
    [storage |-> "EvqTemporary", layoutBinding |-> layoutBindingEnd, layoutSet |-> layoutSetEnd]

Shapes == UNION {[1..n -> [id : Ids, fn : 1..FnCount]] : n \in 0..MaxOcc}

GroupedByFunction(s) == \A i \in 1..Len(s) : \A j \in 1..Len(s) : i < j => s[i].fn <= s[j].fn

OccurringIds(s) == {s[i].id : i \in 1..Len(s)}

MakeTree(s, qual) ==
    [i \in 1..Len(s) |->
        [id |-> s[i].id, fn |-> s[i].fn, storage |-> qual[s[i].id].storage,
         layoutBinding |-> qual[s[i].id].layoutBinding, layoutSet |-> qual[s[i].id].layoutSet]]

Trees ==
    {MakeTree(s, qual) :
        <<s, qual>> \in {sq \in Shapes \X [Ids -> Qualifiers] :
                            /\ GroupedByFunction(sq[1])
                            /\ \A v \in Ids \ OccurringIds(sq[1]) : sq[2][v] = DefaultQualifier}}

getQualifier(t, sym) ==
    [storage |-> t[sym].storage, layoutBinding |-> t[sym].layoutBinding, layoutSet |-> t[sym].layoutSet]

\* ---- TVarEntryInfo -------------------------------------------------------
EntryLess(l, r) == l.id < r.id
EntryEq(l, r) == l.id = r.id

\* aggregate initialisation { id, symbol, live }: the remaining members are
\* value-initialised
NewEntry(id, sym, live) ==
    [id |-> id, symbol |-> sym, live |-> live, newBinding |-> 0, newSet |-> 0]

\* TOrderByPriority with the binding test lost: set presence alone decides
TOrderByPriority_SetOnly(t, l, r) ==
    LET lq == getQualifier(t, l.symbol)
        rq == getQualifier(t, r.symbol)
    IN  IF hasSet(lq)
        THEN IF ~hasSet(rq) THEN TRUE ELSE l.id < r.id
        ELSE IF hasSet(rq) THEN FALSE ELSE l.id < r.id

TOrderByPriority(t, l, r) ==
    LET lq == getQualifier(t, l.symbol)
        rq == getQualifier(t, r.symbol)
    IN  IF hasBinding(lq)
        THEN IF hasBinding(rq)
             THEN IF hasSet(lq)
                  THEN IF ~hasSet(rq) THEN TRUE ELSE l.id < r.id
                  ELSE IF hasSet(rq) THEN FALSE ELSE l.id < r.id
             ELSE TRUE
        ELSE IF hasBinding(rq)
             THEN FALSE
             ELSE IF hasSet(lq)
                  THEN IF ~hasSet(rq) THEN TRUE ELSE l.id < r.id
                  ELSE IF hasSet(rq) THEN FALSE ELSE l.id < r.id

\* ---- std algorithms ------------------------------------------------------
\* std::lower_bound: first position whose element is not less than ent
\* the lookup always answering end(): every symbol is appended
lower_bound_End(list, ent) == Len(list) + 1

lower_bound(list, ent) ==
    IF \E i \in 1..Len(list) : ~EntryLess(list[i], ent)
    THEN CHOOSE i \in 1..Len(list) :
            /\ ~EntryLess(list[i], ent)
            /\ \A j \in 1..(i - 1) : EntryLess(list[j], ent)
    ELSE Len(list) + 1

\* vector::insert before position at
InsertAt(list, at, ent) ==
    [i \in 1..(Len(list) + 1) |->
        IF i < at THEN list[i] ELSE IF i = at THEN ent ELSE list[i - 1]]

\* std::find: first position whose element equals ent (by operator==)
find(list, id) ==
    IF \E i \in 1..Len(list) : list[i].id = id
    THEN CHOOSE i \in 1..Len(list) :
            /\ list[i].id = id
            /\ \A j \in 1..(i - 1) : list[j].id # id
    ELSE Len(list) + 1

\* the comparator std::sort is given: TOrderByPriority() or operator<
SortLess(t, byPriority, l, r) ==
    IF byPriority THEN TOrderByPriority(t, l, r) ELSE EntryLess(l, r)

\* std::sort, as an insertion sort: e goes before the first element it is less than
SortInsert(t, byPriority, s, e) ==
    LET at == IF \E i \in 1..Len(s) : SortLess(t, byPriority, e, s[i])
              THEN CHOOSE i \in 1..Len(s) :
                      /\ SortLess(t, byPriority, e, s[i])
                      /\ \A j \in 1..(i - 1) : ~SortLess(t, byPriority, e, s[j])
              ELSE Len(s) + 1
    IN  InsertAt(s, at, e)

StdSort(t, byPriority, s) ==
    LET f[n \in 0..Len(s)] ==
            IF n = 0 THEN <<>> ELSE SortInsert(t, byPriority, f[n - 1], s[n])
    IN  f[Len(s)]

\* the priority sort left out: the list stays in id order
SortByPriority_None(t, list) == list

SortByPriority(t, list) == StdSort(t, TRUE, list)
\* the re-sort by id left out before write-back
SortById_None(t, list) == list

SortById(t, list) == StdSort(t, FALSE, list)

\* ---- TVarGatherTraverser::visitSymbol -----------------------------------
\* live set whichever traversal creates or meets the entry
GatherLive_Always(traverseAll) == TRUE

GatherLive(traverseAll) == ~traverseAll

GatherVisitSymbol(list, t, base, traverseAll) ==
    IF t[base].storage = "EvqUniform"
    THEN LET ent == NewEntry(t[base].id, base, GatherLive(traverseAll))
             at == lower_bound(list, ent)
         IN  IF at # Len(list) + 1 /\ EntryEq(list[at], ent)
             THEN [list EXCEPT ![at].live = GatherLive(traverseAll)]
             ELSE InsertAt(list, at, ent)
    ELSE list

\* ---- TVarSetTraverser::visitSymbol --------------------------------------
\* write-back that only reaches the occurrence the entry points at
SetVisitSymbol_EntrySymbolOnly(list, t, base) ==
    LET at == find(list, t[base].id)
    IN  IF at = Len(list) + 1 \/ list[at].symbol # base
        THEN t
        ELSE LET b == IF list[at].newBinding # -1 THEN list[at].newBinding ELSE t[base].layoutBinding
                 s == IF list[at].newSet # -1 THEN list[at].newSet ELSE t[base].layoutSet
             IN  [t EXCEPT ![base].layoutBinding = b, ![base].layoutSet = s]

\* the set written only inside the newBinding != -1 branch
SetVisitSymbol_SetUnderBinding(list, t, base) ==
    LET at == find(list, t[base].id)
    IN  IF at = Len(list) + 1 \/ list[at].newBinding = -1
        THEN t
        ELSE LET s == IF list[at].newSet # -1 THEN list[at].newSet ELSE t[base].layoutSet
             IN  [t EXCEPT ![base].layoutBinding = list[at].newBinding, ![base].layoutSet = s]

SetVisitSymbol(list, t, base) ==
    LET at == find(list, t[base].id)
    IN  IF at = Len(list) + 1
        THEN t
        ELSE LET b == IF list[at].newBinding # -1 THEN list[at].newBinding ELSE t[base].layoutBinding
                 s == IF list[at].newSet # -1 THEN list[at].newSet ELSE t[base].layoutSet
             IN  [t EXCEPT ![base].layoutBinding = b, ![base].layoutSet = s]

\* ---- TResolverAdaptor::operator() ---------------------------------------
Call(op, st, t, ent, ret) ==
    [op |-> op, stage |-> st, name |-> getName(t[ent.symbol].id), type |-> getQualifier(t, ent.symbol),
     id |-> ent.id, live |-> ent.live, ret |-> ret]

\* operator() that resolves whatever validateBinding answered
AdaptorCalls_ResolveAlways(st, t, ent, isValid, b, s) ==
    <<Call("validateBinding", st, t, ent, isValid), Call("resolveBinding", st, t, ent, b),
      Call("resolveSet", st, t, ent, s)>>

\* operator() that leaves dead entries out
AdaptorCalls_SkipDead(st, t, ent, isValid, b, s) ==
    IF ~ent.live
    THEN <<>>
    ELSE IF isValid
         THEN <<Call("validateBinding", st, t, ent, TRUE), Call("resolveBinding", st, t, ent, b),
                Call("resolveSet", st, t, ent, s)>>
         ELSE <<Call("validateBinding", st, t, ent, FALSE)>>

\* the resolver calls operator() makes for one entry
AdaptorCalls(st, t, ent, isValid, b, s) ==
    IF isValid
    THEN <<Call("validateBinding", st, t, ent, TRUE), Call("resolveBinding", st, t, ent, b),
           Call("resolveSet", st, t, ent, s)>>
    ELSE <<Call("validateBinding", st, t, ent, FALSE)>>

\* the two results stored into each other's field
AdaptorEntry_Swapped(ent, isValid, b, s) ==
    IF isValid THEN [ent EXCEPT !.newBinding = s, !.newSet = b] ELSE ent

AdaptorEntry(ent, isValid, b, s) ==
    IF isValid THEN [ent EXCEPT !.newBinding = b, !.newSet = s] ELSE ent

\* operator() that reports every entry it visits
AdaptorMessages_EveryEntry(t, ent, isValid) ==
    <<[prefix |-> "EPrefixInternalError",
       text |-> "Invalid binding: " \o getName(t[ent.symbol].id)]>>

AdaptorMessages(t, ent, isValid) ==
    IF isValid
    THEN <<>>
    ELSE <<[prefix |-> "EPrefixInternalError",
            text |-> "Invalid binding: " \o getName(t[ent.symbol].id)]>>

\* error = !isValid: a later valid entry clears the flag
AdaptorError_LastEntry(err, isValid) == ~isValid

AdaptorError(err, isValid) == IF isValid THEN err ELSE TRUE

\* ---- TIoMapper::addStage -------------------------------------------------
\* the resolver == NULL test lost
TrivialReturn_Never(res) == FALSE

TrivialReturn(res) == ~res
\* the isRecursive() test lost
BadEntryPoints_CountOnly(n, rec) == n # 1

BadEntryPoints(n, rec) == n # 1 \/ rec
\* write-back not guarded by the error flag
RunsWriteBack_Always(err) == TRUE

\* write-back never entered
RunsWriteBack_Never(err) == FALSE

RunsWriteBack(err) == ~err
AddStageResult(err) == ~err

Init ==
    /\ tree \in Trees
    /\ tree0 = tree
    /\ stage \in Stages
    /\ resolver \in BOOLEAN
    /\ numEntryPoints \in 0..MaxEntryPoints
    /\ recursive \in BOOLEAN
    /\ root \in BOOLEAN
    /\ ~root => tree = <<>>
    /\ pc = "idle"
    /\ pos = 0
    /\ cur = 0
    /\ functions = <<>>
    /\ liveFunctions = {}
    /\ varMap = <<>>
    /\ passes = <<>>
    /\ error = FALSE
    /\ result = <<>>
    /\ resolverLog = <<>>
    /\ infoSink = <<>>

Inputs == <<tree0, stage, resolver, numEntryPoints, recursive, root>>

\* if (resolver == NULL) return true;
ReturnNoResolver ==
    /\ pc = "idle"
    /\ TrivialReturn(resolver)
    /\ pc' = "done"
    /\ result' = <<TRUE>>
    /\ UNCHANGED <<passes, Inputs, tree, pos, cur, functions, liveFunctions, varMap, error,
                   resolverLog, infoSink>>

\* if (getNumEntryPoints() != 1 || isRecursive()) return false;
ReturnBadEntryPoints ==
    /\ pc = "idle"
    /\ ~TrivialReturn(resolver)
    /\ BadEntryPoints(numEntryPoints, recursive)
    /\ pc' = "done"
    /\ result' = <<FALSE>>
    /\ UNCHANGED <<passes, Inputs, tree, pos, cur, functions, liveFunctions, varMap, error,
                   resolverLog, infoSink>>

\* if (root == nullptr) return false;
ReturnNoRoot ==
    /\ pc = "idle"
    /\ ~TrivialReturn(resolver)
    /\ ~BadEntryPoints(numEntryPoints, recursive)
    /\ ~root
    /\ pc' = "done"
    /\ result' = <<FALSE>>
    /\ UNCHANGED <<passes, Inputs, tree, pos, cur, functions, liveFunctions, varMap, error,
                   resolverLog, infoSink>>

\* TVarLiveMap varMap; root->traverse(&iter_binding_all) begins
BeginGatherAll ==
    /\ pc = "idle"
    /\ ~TrivialReturn(resolver)
    /\ ~BadEntryPoints(numEntryPoints, recursive)
    /\ root
    /\ pc' = "all"
    /\ pos' = 1
    /\ varMap' = <<>>
    /\ passes' = Append(passes, TRUE)
    /\ UNCHANGED <<Inputs, tree, cur, functions, liveFunctions, error, result,
                   resolverLog, infoSink>>

\* one visitSymbol of iter_binding_all
GatherAllVisit ==
    /\ pc = "all"
    /\ pos <= Len(tree)
    /\ varMap' = GatherVisitSymbol(varMap, tree, pos, TRUE)
    /\ pos' = pos + 1
    /\ UNCHANGED <<passes, Inputs, tree, pc, cur, functions, liveFunctions, error, result,
                   resolverLog, infoSink>>

\* iter_binding_live.pushFunction(entry point)
PushEntryPoint ==
    /\ pc = "all"
    /\ pos > Len(tree)
    /\ pc' = "live"
    /\ functions' = <<EntryPoint>>
    /\ liveFunctions' = {EntryPoint}
    /\ cur' = 0
    /\ passes' = Append(passes, FALSE)
    /\ UNCHANGED <<Inputs, tree, pos, varMap, error, result, resolverLog, infoSink>>

\* next occurrence at or after position p that lies in function body fn (0: none)
NextIn(t, fn, p) ==
    IF \E i \in p..Len(t) : t[i].fn = fn
    THEN CHOOSE i \in p..Len(t) : t[i].fn = fn /\ \A j \in p..(i - 1) : t[j].fn # fn
    ELSE 0

\* callees the live traverser has not pushed yet
NewCallees(fn, live) == SelectSeq(Callees(fn), LAMBDA c : c \notin live)

\* function = functions.back(); functions.pop_back(); function->traverse(...) begins
LivePop ==
    /\ pc = "live"
    /\ cur = 0
    /\ functions # <<>>
    /\ LET fn == functions[Len(functions)]
           pushed == NewCallees(fn, liveFunctions)
       IN  /\ cur' = fn
           /\ functions' = SubSeq(functions, 1, Len(functions) - 1) \o pushed
           /\ liveFunctions' = liveFunctions \cup {pushed[i] : i \in 1..Len(pushed)}
    /\ pos' = 1
    /\ UNCHANGED <<passes, Inputs, tree, pc, varMap, error, result, resolverLog, infoSink>>

\* one visitSymbol of iter_binding_live
GatherLiveVisit ==
    /\ pc = "live"
    /\ cur # 0
    /\ NextIn(tree, cur, pos) # 0
    /\ varMap' = GatherVisitSymbol(varMap, tree, NextIn(tree, cur, pos), FALSE)
    /\ pos' = NextIn(tree, cur, pos) + 1
    /\ UNCHANGED <<passes, Inputs, tree, pc, cur, functions, liveFunctions, error, result,
                   resolverLog, infoSink>>

\* function->traverse(&iter_binding_live) returns
LiveEndFunction ==
    /\ pc = "live"
    /\ cur # 0
    /\ NextIn(tree, cur, pos) = 0
    /\ cur' = 0
    /\ UNCHANGED <<passes, Inputs, tree, pc, pos, functions, liveFunctions, varMap, error, result,
                   resolverLog, infoSink>>

\* std::sort(varMap, TOrderByPriority()); TResolverAdaptor doResolve(...)
SortPriority ==
    /\ pc = "live"
    /\ cur = 0
    /\ functions = <<>>
    /\ varMap' = SortByPriority(tree, varMap)
    /\ pc' = "resolve"
    /\ pos' = 1
    /\ error' = FALSE
    /\ UNCHANGED <<passes, Inputs, tree, cur, functions, liveFunctions, result, resolverLog, infoSink>>

\* doResolve(varMap[pos]) of std::for_each, validateBinding returning true
ResolveValid ==
    /\ pc = "resolve"
    /\ pos <= Len(varMap)
    /\ \E b \in ResolverInts : \E s \in ResolverInts :
          /\ resolverLog' = resolverLog \o AdaptorCalls(stage, tree, varMap[pos], TRUE, b, s)
          /\ varMap' = [varMap EXCEPT ![pos] = AdaptorEntry(varMap[pos], TRUE, b, s)]
    /\ infoSink' = infoSink \o AdaptorMessages(tree, varMap[pos], TRUE)
    /\ error' = AdaptorError(error, TRUE)
    /\ pos' = pos + 1
    /\ UNCHANGED <<passes, Inputs, tree, pc, cur, functions, liveFunctions, result>>

\* doResolve(varMap[pos]) of std::for_each, validateBinding returning false
ResolveInvalid ==
    /\ pc = "resolve"
    /\ pos <= Len(varMap)
    /\ resolverLog' = resolverLog \o AdaptorCalls(stage, tree, varMap[pos], FALSE, 0, 0)
    /\ varMap' = [varMap EXCEPT ![pos] = AdaptorEntry(varMap[pos], FALSE, 0, 0)]
    /\ infoSink' = infoSink \o AdaptorMessages(tree, varMap[pos], FALSE)
    /\ error' = AdaptorError(error, FALSE)
    /\ pos' = pos + 1
    /\ UNCHANGED <<passes, Inputs, tree, pc, cur, functions, liveFunctions, result>>

\* if (!doResolve.error) { std::sort(varMap); root->traverse(&iter_iomap) begins
BeginWriteBack ==
    /\ pc = "resolve"
    /\ pos > Len(varMap)
    /\ RunsWriteBack(error)
    /\ varMap' = SortById(tree, varMap)
    /\ pc' = "writeback"
    /\ pos' = 1
    /\ UNCHANGED <<passes, Inputs, tree, cur, functions, liveFunctions, error, result,
                   resolverLog, infoSink>>

\* one visitSymbol of iter_iomap
SetVisit ==
    /\ pc = "writeback"
    /\ pos <= Len(tree)
    /\ tree' = SetVisitSymbol(varMap, tree, pos)
    /\ pos' = pos + 1
    /\ UNCHANGED <<passes, Inputs, pc, cur, functions, liveFunctions, varMap, error, result,
                   resolverLog, infoSink>>

\* return !doResolve.error; after the write-back traversal
ReturnAfterWriteBack ==
    /\ pc = "writeback"
    /\ pos > Len(tree)
    /\ pc' = "done"
    /\ result' = <<AddStageResult(error)>>
    /\ UNCHANGED <<passes, Inputs, tree, pos, cur, functions, liveFunctions, varMap, error,
                   resolverLog, infoSink>>

\* return !doResolve.error; with the write-back skipped
ReturnSkipWriteBack ==
    /\ pc = "resolve"
    /\ pos > Len(varMap)
    /\ ~RunsWriteBack(error)
    /\ pc' = "done"
    /\ result' = <<AddStageResult(error)>>
    /\ UNCHANGED <<passes, Inputs, tree, pos, cur, functions, liveFunctions, varMap, error,
                   resolverLog, infoSink>>

Next ==
    \/ ReturnNoResolver
    \/ ReturnBadEntryPoints
    \/ ReturnNoRoot
    \/ BeginGatherAll
    \/ GatherAllVisit
    \/ PushEntryPoint
    \/ LivePop
    \/ GatherLiveVisit
    \/ LiveEndFunction
    \/ SortPriority
    \/ ResolveValid
    \/ ResolveInvalid
    \/ BeginWriteBack
    \/ SetVisit
    \/ ReturnAfterWriteBack
    \/ ReturnSkipWriteBack

Spec == Init /\ [][Next]_vars

TypeOK ==
    /\ pc \in {"idle", "all", "live", "resolve", "writeback", "done",
              "gather", "gatherAll", "gatherLive"}
    /\ result \in {<<>>, <<TRUE>>, <<FALSE>>}
    /\ Len(tree) = Len(tree0)

\* ---- the collector on its own ------------------------------------------
\* TVarGatherTraverser takes the list and traverseAll from its constructor:
\* here its passes run over one list in any order, a new traverser per pass.
InitGather ==
    /\ tree \in Trees
    /\ tree0 = tree
    /\ stage = "EShLangVertex"
    /\ resolver = TRUE
    /\ numEntryPoints = 1
    /\ recursive = FALSE
    /\ root = TRUE
    /\ pc = "gather"
    /\ pos = 0
    /\ cur = 0
    /\ functions = <<>>
    /\ liveFunctions = {}
    /\ varMap = <<>>
    /\ passes = <<>>
    /\ error = FALSE
    /\ result = <<>>
    /\ resolverLog = <<>>
    /\ infoSink = <<>>

Fixed == <<Inputs, tree, error, result, resolverLog, infoSink>>

\* TVarGatherTraverser(intermediate, varMap, true); root->traverse(...) begins
CollectorBeginAll ==
    /\ pc = "gather"
    /\ Len(passes) < MaxPasses
    /\ pc' = "gatherAll"
    /\ pos' = 1
    /\ passes' = Append(passes, TRUE)
    /\ UNCHANGED <<Fixed, cur, functions, liveFunctions, varMap>>

\* one visitSymbol of an all-code pass
CollectorAllVisit ==
    /\ pc = "gatherAll"
    /\ pos <= Len(tree)
    /\ varMap' = GatherVisitSymbol(varMap, tree, pos, TRUE)
    /\ pos' = pos + 1
    /\ UNCHANGED <<Fixed, pc, cur, functions, liveFunctions, passes>>

\* root->traverse(...) of an all-code pass returns
CollectorEndAll ==
    /\ pc = "gatherAll"
    /\ pos > Len(tree)
    /\ pc' = "gather"
    /\ UNCHANGED <<Fixed, pos, cur, functions, liveFunctions, varMap, passes>>

\* TVarGatherTraverser(intermediate, varMap, false); pushFunction(entry point)
CollectorBeginLive ==
    /\ pc = "gather"
    /\ Len(passes) < MaxPasses
    /\ pc' = "gatherLive"
    /\ functions' = <<EntryPoint>>
    /\ liveFunctions' = {EntryPoint}
    /\ cur' = 0
    /\ passes' = Append(passes, FALSE)
    /\ UNCHANGED <<Fixed, pos, varMap>>

\* function = functions.back(); functions.pop_back(); function->traverse(...) begins
CollectorLivePop ==
    /\ pc = "gatherLive"
    /\ cur = 0
    /\ functions # <<>>
    /\ LET fn == functions[Len(functions)]
           pushed == NewCallees(fn, liveFunctions)
       IN  /\ cur' = fn
           /\ functions' = SubSeq(functions, 1, Len(functions) - 1) \o pushed
           /\ liveFunctions' = liveFunctions \cup {pushed[i] : i \in 1..Len(pushed)}
    /\ pos' = 1
    /\ UNCHANGED <<Fixed, pc, varMap, passes>>

\* one visitSymbol of a live-only pass
CollectorLiveVisit ==
    /\ pc = "gatherLive"
    /\ cur # 0
    /\ NextIn(tree, cur, pos) # 0
    /\ varMap' = GatherVisitSymbol(varMap, tree, NextIn(tree, cur, pos), FALSE)
    /\ pos' = NextIn(tree, cur, pos) + 1
    /\ UNCHANGED <<Fixed, pc, cur, functions, liveFunctions, passes>>

\* function->traverse(...) of a live-only pass returns
CollectorLiveEndFunction ==
    /\ pc = "gatherLive"
    /\ cur # 0
    /\ NextIn(tree, cur, pos) = 0
    /\ cur' = 0
    /\ UNCHANGED <<Fixed, pc, pos, functions, liveFunctions, varMap, passes>>

\* the work list of a live-only pass is empty
CollectorEndLive ==
    /\ pc = "gatherLive"
    /\ cur = 0
    /\ functions = <<>>
    /\ pc' = "gather"
    /\ UNCHANGED <<Fixed, pos, cur, functions, liveFunctions, varMap, passes>>

NextGather ==
    \/ CollectorBeginAll
    \/ CollectorAllVisit
    \/ CollectorEndAll
    \/ CollectorBeginLive
    \/ CollectorLivePop
    \/ CollectorLiveVisit
    \/ CollectorLiveEndFunction
    \/ CollectorEndLive

SpecGather == InitGather /\ [][NextGather]_vars

\* ---- properties ---------------------------------------------------------
PreconditionsHold == resolver /\ numEntryPoints = 1 /\ ~recursive /\ root

ValidateIdx == {i \in 1..Len(resolverLog) : resolverLog[i].op = "validateBinding"}
RejectedIdx == {i \in ValidateIdx : ~resolverLog[i].ret}
AcceptedIdx == {i \in ValidateIdx : resolverLog[i].ret}

SameArguments(a, b) ==
    /\ a.stage = b.stage
    /\ a.name = b.name
    /\ a.type = b.type
    /\ a.live = b.live
    /\ a.id = b.id

UniformOccurrences(t) == {i \in 1..Len(t) : t[i].storage = "EvqUniform"}

C3_NoResolverNoOp ==
    ~resolver =>
        /\ pc \in {"idle", "done"}
        /\ pc = "done" => result = <<TRUE>>
        /\ varMap = <<>>
        /\ passes = <<>>
        /\ resolverLog = <<>>
        /\ infoSink = <<>>
        /\ tree = tree0

C3_Witness ==
    /\ pc = "done"
    /\ ~resolver
    /\ numEntryPoints = 1 /\ ~recursive /\ root
    /\ UniformOccurrences(tree) # {}

\* C4: with a resolver, when the program has not exactly one entry point,
\* or is recursive, or has no tree root, addStage returns false, calls no
\* resolver operation, emits no diagnostic and changes no qualifier.
C4_PreconditionFailure ==
    (resolver /\ (numEntryPoints # 1 \/ recursive \/ ~root)) =>
        /\ pc \in {"idle", "done"}
        /\ pc = "done" => result = <<FALSE>>
        /\ resolverLog = <<>>
        /\ infoSink = <<>>
        /\ tree = tree0

C4_Witness ==
    /\ pc = "done"
    /\ resolver
    /\ numEntryPoints = 1 /\ recursive /\ root
    /\ UniformOccurrences(tree) # {}

\* C5: resolveBinding is called only directly after a validateBinding that
\* returned true, resolveSet only directly after that resolveBinding, all
\* three with the same (stage, name, type, live); an entry whose
\* validateBinding returned false gets no resolveBinding nor resolveSet.
C5_ResolverProtocol ==
    [](
    LET log == resolverLog IN
    \A i \in 1..Len(log) :
        LET c == log[i] IN
        /\ c.op = "resolveBinding" =>
              /\ i > 1
              /\ log[i - 1].op = "validateBinding"
              /\ log[i - 1].ret = TRUE
              /\ SameArguments(log[i - 1], c)
        /\ c.op = "resolveSet" =>
              /\ i > 2
              /\ log[i - 1].op = "resolveBinding"
              /\ SameArguments(log[i - 1], c)
        /\ (c.op = "validateBinding" /\ ~c.ret) =>
              \A j \in 1..Len(log) :
                  log[j].id = c.id => log[j].op = "validateBinding")

C5_Witness ==
    /\ pc = "done"
    /\ RejectedIdx # {}
    /\ \E i \in 1..Len(resolverLog) : resolverLog[i].op = "resolveSet"

\* C6: when resolution has ended, every collected entry (one per uniform id
\* of the tree, dead ones included) has been passed to validateBinding
\* exactly once, with its own live flag, whatever earlier entries answered.
C6_EveryEntryValidatedOnce ==
    [](
    (PreconditionsHold /\ pc \in {"writeback", "done"}) =>
        LET V == ValidateIdx IN
        /\ {varMap[k].id : k \in 1..Len(varMap)} = {tree0[o].id : o \in UniformOccurrences(tree0)}
        /\ Cardinality(V) = Len(varMap)
        /\ \A k \in 1..Len(varMap) :
              /\ Cardinality({i \in V : resolverLog[i].id = varMap[k].id}) = 1
              /\ \A i \in V :
                    resolverLog[i].id = varMap[k].id => resolverLog[i].live = varMap[k].live)

C6_Witness ==
    /\ pc = "done"
    /\ Len(resolverLog) > 1
    /\ resolverLog[1].op = "validateBinding"
    /\ ~resolverLog[1].ret
    /\ \E i \in ValidateIdx : i > 1 /\ ~resolverLog[i].live

RejectedCalls == SelectSeq(resolverLog, LAMBDA c : c.op = "validateBinding" /\ ~c.ret)

\* C7: the diagnostics sink holds exactly one internal-error message
\* "Invalid binding: <name>" per rejected entry, in the order of rejection,
\* and nothing for the entries that validated.
C7_OneMessagePerRejection ==
    infoSink = [i \in 1..Len(RejectedCalls) |->
                   [prefix |-> "EPrefixInternalError",
                    text |-> "Invalid binding: " \o RejectedCalls[i].name]]

C7_Witness ==
    /\ pc = "done"
    /\ Len(infoSink) = 1
    /\ Cardinality(ValidateIdx) = 2

PriorityClass(q) ==
    IF hasBinding(q) /\ hasSet(q) THEN 1
    ELSE IF hasBinding(q) THEN 2
    ELSE IF hasSet(q) THEN 3
    ELSE 4

\* C8: entries reach the resolver by priority class (binding and set,
\* binding only, set only, neither) and, inside one class, by ascending id.
C8_ResolverOrder ==
    [](
    LET V == ValidateIdx IN
    \A i \in V : \A j \in V :
        i < j =>
            LET ci == PriorityClass(resolverLog[i].type)
                cj == PriorityClass(resolverLog[j].type)
            IN  ci < cj \/ (ci = cj /\ resolverLog[i].id < resolverLog[j].id))

C8_Witness ==
    /\ pc = "done"
    /\ \E i \in ValidateIdx : \E j \in ValidateIdx :
          /\ i < j
          /\ resolverLog[i].id > resolverLog[j].id
          /\ PriorityClass(resolverLog[i].type) = 2
          /\ PriorityClass(resolverLog[j].type) = 3

\* C9: after a successful addStage, all occurrences of one variable carry
\* the same layoutBinding and the same layoutSet, and these equal the
\* entry's newBinding / newSet wherever that is not -1.
C9_WriteBackConsistency ==
    (pc = "done" /\ PreconditionsHold /\ result = <<TRUE>>) =>
        /\ \A o1 \in 1..Len(tree) : \A o2 \in 1..Len(tree) :
              tree[o1].id = tree[o2].id =>
                  /\ tree[o1].layoutBinding = tree[o2].layoutBinding
                  /\ tree[o1].layoutSet = tree[o2].layoutSet
        /\ \A k \in 1..Len(varMap) : \A o \in 1..Len(tree) :
              tree[o].id = varMap[k].id =>
                  /\ varMap[k].newBinding # -1 => tree[o].layoutBinding = varMap[k].newBinding
                  /\ varMap[k].newSet # -1 => tree[o].layoutSet = varMap[k].newSet

C9_Witness ==
    /\ pc = "done"
    /\ result = <<TRUE>>
    /\ \E o1 \in 1..Len(tree) : \E o2 \in 1..Len(tree) :
          /\ tree[o1].id = tree[o2].id
          /\ tree[o1].fn = 1
          /\ tree[o2].fn = EntryPoint
          /\ tree[o1].layoutBinding # tree0[o1].layoutBinding
          /\ tree[o1].layoutSet # tree0[o1].layoutSet

\* C10: a visitSymbol of the collector that meets an id already in the
\* list never turns that entry's live flag from true to false, whichever
\* pass (all-code or live-only) is running and in whichever order they run.
C10_LiveNeverDowngraded ==
    [][\A i \in 1..Len(varMap) : \A j \in 1..Len(varMap') :
          (varMap'[j].id = varMap[i].id /\ varMap[i].live) => varMap'[j].live]_vars

\* function bodies the live-only traversal reaches from the entry point
ReachableFns ==
    LET f[n \in 0..FnCount] ==
            IF n = 0 THEN {EntryPoint}
            ELSE f[n - 1] \cup {Callees(g)[i] : <<g, i>> \in
                                   {gi \in f[n - 1] \X (1..FnCount) : gi[2] <= Len(Callees(gi[1]))}}
    IN  f[FnCount]

UniformIds(t) == {t[o].id : o \in UniformOccurrences(t)}
LiveIds(t) == {t[o].id : o \in {u \in UniformOccurrences(t) : t[u].fn \in ReachableFns}}
QualifierOf(t, v) == getQualifier(t, CHOOSE o \in 1..Len(t) : t[o].id = v)

\* the (class, id) pairs in the order the resolver is to see them
PrioritySlots ==
    [n \in 1..(4 * NumVars) |-> <<((n - 1) \div NumVars) + 1, ((n - 1) % NumVars) + 1>>]

\* the (name, type, live) tuples of the uniform variables of t, ordered by
\* priority class and then id: a function of the set of variables alone
ExpectedTuples(t) ==
    LET U == UniformIds(t)
        live == LiveIds(t)
        taken == SelectSeq(PrioritySlots,
                           LAMBDA sl : sl[2] \in U /\ PriorityClass(QualifierOf(t, sl[2])) = sl[1])
    IN  [i \in 1..Len(taken) |->
            <<getName(taken[i][2]), QualifierOf(t, taken[i][2]), taken[i][2] \in live>>]

ValidateCalls == SelectSeq(resolverLog, LAMBDA c : c.op = "validateBinding")

\* C11: the sequence of (name, type, live) tuples handed to the resolver in
\* a call is a function of the input tree alone: it is the tree's set of
\* uniform variables ordered by qualifier class and id, whatever the order in
\* which the traversals met the symbols and whatever the resolver answered.
C11_OrderingDeterminism ==
    [](
    (pc = "done" /\ PreconditionsHold) =>
        LET calls == ValidateCalls IN
        [i \in 1..Len(calls) |-> <<calls[i].name, calls[i].type, calls[i].live>>]
        = ExpectedTuples(tree0))

C11_Witness ==
    /\ pc = "done"
    /\ Len(ValidateCalls) = 2
    /\ tree0[1].storage = "EvqUniform"
    /\ ValidateCalls[1].id # tree0[1].id
    /\ RejectedIdx # {}

\* C12: every entry starts with newBinding = -1 and newSet = -1 and keeps
\* them until the adaptor stores a resolveBinding / resolveSet result: an
\* entry that no successful validateBinding was made for (not yet resolved,
\* or rejected) has newBinding = -1 and newSet = -1.
C12_UnsetUntilResolved ==
    \A k \in 1..Len(varMap) :
        (\A i \in AcceptedIdx : resolverLog[i].id # varMap[k].id) =>
            (varMap[k].newBinding = -1 /\ varMap[k].newSet = -1)

ReturnedBy(op, id) ==
    {resolverLog[i].ret : i \in {j \in 1..Len(resolverLog) :
                                    resolverLog[j].op = op /\ resolverLog[j].id = id}}

C14_CollectionResult ==
    [](
    (PreconditionsHold /\ pc \in {"resolve", "writeback", "done"}) =>
        LET U == UniformIds(tree0)
            live == LiveIds(tree0)
        IN  /\ Len(varMap) = Cardinality(U)
            /\ {varMap[k].id : k \in 1..Len(varMap)} = U
            /\ \A k \in 1..Len(varMap) : varMap[k].live <=> (varMap[k].id \in live))

C14_Witness ==
    /\ pc = "resolve"
    /\ pos = 1
    /\ \E k \in 1..Len(varMap) : \E m \in 1..Len(varMap) :
          /\ varMap[k].live
          /\ ~varMap[m].live
          /\ \E o1 \in 1..Len(tree) : \E o2 \in 1..Len(tree) :
                /\ tree[o1].id = varMap[m].id /\ tree[o1].fn = 1
                /\ tree[o2].id = varMap[k].id /\ tree[o2].fn = 2

StrictlyAscending(list) == \A i \in 1..Len(list) : \A j \in 1..Len(list) : i < j => list[i].id < list[j].id

Occurs(list, e) == Cardinality({i \in 1..Len(list) : list[i] = e})

IsPermutation(a, b) ==
    /\ Len(a) = Len(b)
    /\ \A i \in 1..Len(a) : Occurs(a, a[i]) = Occurs(b, a[i])

\* C15: after every visitSymbol step of either collection traversal the
\* entry list is strictly ascending by id; the priority sort permutes the
\* entries without adding, removing or changing one; and the list is
\* strictly ascending by id again when the write-back traversal starts.
C15_EntryListInvariant ==
    [][/\ pc' \in {"all", "live", "writeback"} => StrictlyAscending(varMap')
       /\ (pc = "live" /\ pc' = "resolve") => IsPermutation(varMap, varMap')]_vars

C15_Witness ==
    /\ pc = "writeback"
    /\ pos = 1
    /\ Len(varMap) = 2
    /\ ValidateCalls[1].id = 2
    /\ tree0[1].id = 2

EntryIds(list) == {list[k].id : k \in 1..Len(list)}

\* C16: once an all-code pass has run over the tree, every visitSymbol of a
\* further all-code pass over the unchanged tree leaves the entry list with
\* the same number of entries and the same set of ids.
C16_CollectionIdempotent ==
    [][(/\ pc = "gatherAll"
        /\ \E k \in 1..(Len(passes) - 1) : passes[k] = TRUE) =>
          (Len(varMap') = Len(varMap) /\ EntryIds(varMap') = EntryIds(varMap))]_vars

C16_Witness ==
    /\ pc = "gather"
    /\ passes = <<TRUE, TRUE>>
    /\ Len(varMap) = 2

\* C17: the write-back visit of an occurrence whose id has an entry sets
\* layoutBinding to newBinding exactly when newBinding # -1 and layoutSet
\* to newSet exactly when newSet # -1, each field on its own; an occurrence
\* whose id has no entry keeps both fields; no other occurrence changes in
\* that visit, and no step outside the write-back visits changes the tree.
C17_WriteBackRule ==
    [][IF pc = "writeback" /\ pos <= Len(tree)
       THEN /\ \A o \in 1..Len(tree) : o # pos => tree'[o] = tree[o]
            /\ tree[pos].id \notin EntryIds(varMap) => tree'[pos] = tree[pos]
            /\ \A k \in 1..Len(varMap) :
                  varMap[k].id = tree[pos].id =>
                      /\ tree'[pos].layoutBinding =
                            IF varMap[k].newBinding # -1 THEN varMap[k].newBinding
                            ELSE tree[pos].layoutBinding
                      /\ tree'[pos].layoutSet =
                            IF varMap[k].newSet # -1 THEN varMap[k].newSet
                            ELSE tree[pos].layoutSet
                      /\ tree'[pos].id = tree[pos].id
                      /\ tree'[pos].storage = tree[pos].storage
       ELSE tree' = tree]_vars

C17_Witness ==
    /\ pc = "done"
    /\ \E o \in 1..Len(tree) : tree[o].id \notin EntryIds(varMap)
    /\ \E o \in 1..Len(tree) : \E k \in 1..Len(varMap) :
          /\ varMap[k].id = tree[o].id
          /\ varMap[k].newBinding = -1
          /\ varMap[k].newSet # -1
          /\ tree[o].layoutBinding = tree0[o].layoutBinding
          /\ tree[o].layoutSet # tree0[o].layoutSet

PhaseSteps ==
    {<<"idle", "all">>, <<"all", "live">>, <<"live", "resolve">>, <<"resolve", "writeback">>,
     <<"resolve", "done">>, <<"writeback", "done">>, <<"idle", "done">>}

\* C18: one addStage call goes through all-code collection, live-only
\* collection, sort and resolution, write-back, in that order: the all-code
\* pass has met every uniform id when the live-only pass starts, the live
\* flags are final before the first resolver call, the resolver is called
\* only during resolution and for every entry before a qualifier is
\* written, qualifiers are written only during write-back, and write-back
\* is the only phase skipped, and only after a recorded validation failure.
C18_PhaseOrder ==
    [][/\ pc' # pc => <<pc, pc'>> \in PhaseSteps
       /\ (PreconditionsHold /\ pc = "idle") => pc' = "all"
       /\ (pc = "all" /\ pc' = "live") => EntryIds(varMap) = UniformIds(tree)
       /\ (pc = "live" /\ pc' = "resolve") =>
             \A k \in 1..Len(varMap') : varMap'[k].live <=> (varMap'[k].id \in LiveIds(tree))
       /\ pc \in {"resolve", "writeback"} =>
             /\ EntryIds(varMap') = EntryIds(varMap)
             /\ \A k \in 1..Len(varMap) : \A m \in 1..Len(varMap') :
                   varMap[k].id = varMap'[m].id => varMap[k].live = varMap'[m].live
       /\ resolverLog' # resolverLog => (pc = "resolve" /\ pc' = "resolve")
       /\ (pc = "resolve" /\ pc' # "resolve") => Cardinality(ValidateIdx) = Len(varMap)
       /\ tree' # tree => (pc = "writeback" /\ pc' = "writeback")
       /\ (pc = "resolve" /\ pc' = "done") => RejectedIdx # {}]_vars

C18_Witness ==
    /\ pc = "done"
    /\ result = <<TRUE>>
    /\ passes = <<TRUE, FALSE>>
    /\ Len(ValidateCalls) = 2
    /\ tree # tree0

BadPreconditions == numEntryPoints # 1 \/ recursive \/ ~root

\* C19: the resolver == NULL test comes first: without a resolver addStage
\* returns true even when the program has zero or several entry points, is
\* recursive or has no root; such a program makes addStage return false
\* when, and only when, a resolver is supplied.
C19_NullResolverFirst ==
    (pc = "done" /\ BadPreconditions) => (result = <<FALSE>> <=> resolver)

C19_Witness ==
    /\ pc = "done"
    /\ ~resolver
    /\ numEntryPoints = 0
    /\ recursive
    /\ ~root
    /\ result = <<TRUE>>

====
